---- MODULE Spec2Model ----
(***************************************************************************)
(* A model of main.py: the CSV loader (load_data), the denormalizer        *)
(* (process_data), the query engine (filter_foods), the per-context cache  *)
(* (get_data) and the start-up block.                                      *)
(*                                                                         *)
(* Strings are sequences of Unicode code points (65 = "A", 97 = "a", ...). *)
(* pandas.read_csv turns an empty cell into NaN, so a string cell is       *)
(* either absent, written <<>>, or a non-empty sequence; an absent numeric *)
(* cell is NaN.                                                            *)
(***************************************************************************)
EXTENDS Integers, Sequences, FiniteSets, TLC

VARIABLES
    csv,        \* what the source files under ./data hold
    data,       \* the dict process_data returned for csv, or NoData
    out,        \* what the last filter_foods call produced, or NoCall
    pc,         \* the process: "boot", "preload", "serving", "crashed"
    dataDir,    \* whether ./data exists
    files,      \* per source file: "ok", "missing" or "noperm"
    live,       \* the application contexts that are pushed
    g,          \* flask.g of every context: its "data" attribute or NoData
    ret,        \* what the last get_data call did, or NoCall
    resp,       \* the last response of the server, or NoCall
    firstLoaded \* the dict of the first successful load of the process, or NoData

vars == <<csv, data, out, pc, dataDir, files, live, g, ret, resp, firstLoaded>>

serverVars == <<pc, dataDir, files, live, g, ret, resp, firstLoaded>>

-----------------------------------------------------------------------------
(* Values *)

NaN == 0 - 1
NoData == [kind |-> "nodata"]
NoCall == [kind |-> "none"]

\* Python's str.lower on one code point (ASCII letters)
Lower(c) == IF c >= 65 /\ c <= 90 THEN c + 32 ELSE c

LowerStr(s) == [i \in 1..Len(s) |-> Lower(s[i])]

IsSpace(c) == c = 32

RECURSIVE LStrip(_)
LStrip(s) ==
    IF s # <<>> /\ IsSpace(Head(s)) THEN LStrip(Tail(s)) ELSE s

RECURSIVE RStrip(_)
RStrip(s) ==
    IF s # <<>> /\ IsSpace(s[Len(s)])
    THEN RStrip(SubSeq(s, 1, Len(s) - 1))
    ELSE s

\* Python's str.strip
Strip(s) == RStrip(LStrip(s))

\* Python's < on str: lexicographic on code points
RECURSIVE StrLess(_, _)
StrLess(a, b) ==
    IF b = <<>> THEN FALSE
    ELSE IF a = <<>> THEN TRUE
    ELSE IF a[1] # b[1] THEN a[1] < b[1]
    ELSE StrLess(Tail(a), Tail(b))

-----------------------------------------------------------------------------
(* Column names, as the text a query has to spell *)

S_food_name == <<102, 111, 111, 100, 95, 110, 97, 109, 101>>
S_food_id == <<102, 111, 111, 100, 95, 105, 100>>
S_description == <<100, 101, 115, 99, 114, 105, 112, 116, 105, 111, 110>>
S_price == <<112, 114, 105, 99, 101>>
S_image_ref == <<105, 109, 97, 103, 101, 95, 114, 101, 102>>
S_import_name == <<105, 109, 112, 111, 114, 116, 95, 110, 97, 109, 101>>
S_vitamin_d == <<118, 105, 116, 97, 109, 105, 110, 95, 100>>
S_vitamin_c == <<118, 105, 116, 97, 109, 105, 110, 95, 99>>
S_calcium == <<99, 97, 108, 99, 105, 117, 109>>
S_menu_count == <<109, 101, 110, 117, 95, 99, 111, 117, 110, 116>>

\* The columns of the canonical food table after both merges
Columns ==
    { [name |-> "food_name", text |-> S_food_name],
      [name |-> "food_id", text |-> S_food_id],
      [name |-> "description", text |-> S_description],
      [name |-> "price", text |-> S_price],
      [name |-> "image_ref", text |-> S_image_ref],
      [name |-> "import_name", text |-> S_import_name],
      [name |-> "vitamin_d", text |-> S_vitamin_d],
      [name |-> "vitamin_c", text |-> S_vitamin_c],
      [name |-> "calcium", text |-> S_calcium],
      [name |-> "menu_count", text |-> S_menu_count] }

StringColumns == {"food_name", "description", "image_ref", "import_name"}

IsColumn(q) == \E c \in Columns : c.text = q

ColumnOf(q) == (CHOOSE c \in Columns : c.text = q).name

\* Series.isna on one cell of column col
IsNa(r, col) ==
    IF col \in StringColumns THEN r[col] = <<>> ELSE r[col] = NaN

-----------------------------------------------------------------------------
(* process_data: the denormalizer *)

KeysOf(T) == {T[i].food_id : i \in 1..Len(T)}

RowsOf(T, k) == SelectSeq(T, LAMBDA r : r.food_id = k)

RECURSIVE SortedSeq(_)
SortedSeq(S) ==
    IF S = {} THEN <<>>
    ELSE LET m == CHOOSE x \in S : \A y \in S : x <= y
         IN  <<m>> \o SortedSeq(S \ {m})

RECURSIVE Flatten(_)
Flatten(ss) == IF ss = <<>> THEN <<>> ELSE Head(ss) \o Flatten(Tail(ss))

\* The cells a merge fills in for a row the other side does not have
NullFood ==
    [food_name |-> <<>>, food_id |-> NaN, description |-> <<>>,
     price |-> NaN, image_ref |-> <<>>, import_name |-> <<>>]

NullNutrients ==
    [food_id |-> NaN, vitamin_d |-> NaN, vitamin_c |-> NaN, calcium |-> NaN]

NullMenuCount == [food_id |-> NaN, menu_count |-> NaN]

\* The rows DataFrame.merge(on food_id) makes for one key: every left row of
\* the key paired with every right row of the key; a side without the key
\* contributes one row of NaN when `how` keeps the other side's rows.
MergeKey(L, R, k, nullL, nullR, how) ==
    LET Lk == RowsOf(L, k)
        Rk == RowsOf(R, k)
        Lp == IF Lk # <<>> THEN Lk
              ELSE IF how \in {"outer", "right"}
                   THEN << [nullL EXCEPT !.food_id = k] >>
                   ELSE <<>>
        Rp == IF Rk # <<>> THEN Rk
              ELSE IF how \in {"outer", "left"}
                   THEN << [nullR EXCEPT !.food_id = k] >>
                   ELSE <<>>
    IN  [i \in 1..(Len(Lp) * Len(Rp)) |->
            Lp[((i - 1) \div Len(Rp)) + 1] @@ Rp[((i - 1) % Len(Rp)) + 1]]

\* DataFrame.merge(left_on="food_id", right_on="food_id", how=how); the keys
\* of an outer merge come out in sorted order
Merge(L, R, nullL, nullR, how) ==
    LET ks == SortedSeq(KeysOf(L) \cup KeysOf(R))
    IN  Flatten([i \in 1..Len(ks) |->
                    MergeKey(L, R, ks[i], nullL, nullR, how)])

\* nutrition_data.iloc[:, 1:]
DropNutritionId(N) ==
    [i \in 1..Len(N) |->
        [food_id |-> N[i].food_id, vitamin_d |-> N[i].vitamin_d,
         vitamin_c |-> N[i].vitamin_c, calcium |-> N[i].calcium]]

\* food_menu_data[["food_id"]].groupby("food_id").size().reset_index()
MenuCounts(A) ==
    LET ks == SortedSeq(KeysOf(A))
    IN  [i \in 1..Len(ks) |->
            [food_id |-> ks[i], menu_count |-> Len(RowsOf(A, ks[i]))]]

\* a merge that keeps only the rows of the food table
HowLeft == "left"

NutritionMergeHow == "outer"

MenuMergeHow == "outer"

process_data(raw) ==
    LET withNutrition ==
            Merge(raw.food_data, DropNutritionId(raw.nutrition_data),
                  NullFood, NullNutrients, NutritionMergeHow)
        food_data ==
            Merge(withNutrition, MenuCounts(raw.food_menu_data),
                  NullFood @@ NullNutrients, NullMenuCount, MenuMergeHow)
    IN  [food_data |-> food_data, menu_data |-> raw.menu_data,
         nutrition_data |-> raw.nutrition_data,
         food_menu_data |-> raw.food_menu_data]

-----------------------------------------------------------------------------
(* filter_foods: the query engine *)

\* re.compile(pat, re.IGNORECASE) raises re.error on an unbalanced "(".  The
\* query alphabet holds no ")", so every "(" is unbalanced.
RegexCompiles(pat) == \A i \in 1..Len(pat) : pat[i] # 40

\* Whether pattern character p matches text character c under re.IGNORECASE:
\* "." matches any character, every other character of the alphabet itself
RegexCharMatches(p, c) == p = 46 \/ Lower(p) = Lower(c)

\* regex.search(text) is not None, text a present cell
RegexSearch(pat, text) ==
    \E i \in 0..(Len(text) - Len(pat)) :
        \A j \in 1..Len(pat) : RegexCharMatches(pat[j], text[i + j])

\* Series.str.contains(pat, case=False) on one cell: NaN for an absent cell,
\* which the | of the two masks and the boolean indexing take as False
StrContains(cell, pat) == cell # <<>> /\ RegexSearch(pat, cell)

\* A column read_csv found empty in every row is float64, and Series.str
\* raises AttributeError on it.  (food_name is present in every food row of
\* the inputs, and the food file holds a row.)
StrAccessorFails(food_data, col) ==
    /\ food_data # <<>>
    /\ \A i \in 1..Len(food_data) : food_data[i][col] = <<>>

\* floor division in place of int()
PagesLeftFloor(n) == (n - 1) \div 10

\* Python's int() on (n - 1) / 10.: truncation toward zero
PagesLeft(n) == IF n - 1 >= 0 THEN (n - 1) \div 10 ELSE 0 - ((1 - n) \div 10)

HasName(r) == r.food_name # <<>>

\* a sort key that folds the letter case
NameKeyFolded(name) == LowerStr(name)

\* what sort_values(by="food_name") compares: the names as they are
NameKey(name) == name

\* insert r behind the rows whose food_name is not greater (a stable sort)
RECURSIVE InsertByName(_, _)
InsertByName(sorted, r) ==
    IF sorted = <<>> THEN <<r>>
    ELSE IF StrLess(NameKey(r.food_name), NameKey(Head(sorted).food_name))
         THEN <<r>> \o sorted
         ELSE <<Head(sorted)>> \o InsertByName(Tail(sorted), r)

RECURSIVE SortNamed(_)
SortNamed(rows) ==
    IF rows = <<>> THEN <<>>
    ELSE InsertByName(SortNamed(SubSeq(rows, 1, Len(rows) - 1)),
                      rows[Len(rows)])

\* DataFrame.sort_values(by="food_name"): ascending, NaN names last
SortValues(rows) ==
    SortNamed(SelectSeq(rows, HasName))
        \o SelectSeq(rows, LAMBDA r : ~HasName(r))

\* results.iloc[:min(len(results), 5), :]
Cap(rows) == SubSeq(rows, 1, IF Len(rows) < 5 THEN Len(rows) ELSE 5)

\* results.set_index("food_id").values.tolist(): food_id becomes the index,
\* and the values are the three columns left
ValuesToList(rows) ==
    [i \in 1..Len(rows) |->
        <<rows[i].food_name, rows[i].price, rows[i].menu_count>>]

Raise(e) == [kind |-> "raise", error |-> e, results |-> <<>>, pages_left |-> 0]

\* lines 100-108, from the selected rows
Format(selected) ==
    [kind |-> "return", error |-> "",
     results |-> ValuesToList(Cap(SortValues(selected))),
     pages_left |-> PagesLeft(Len(selected))]

\* The rows filter_foods selects (lines 90-98), when it selects
Selected(food_data, query, mode) ==
    LET q == LowerStr(Strip(query))
    IN  IF mode = "namedesc"
        THEN SelectSeq(food_data,
                       LAMBDA r : \/ StrContains(r.food_name, q)
                                  \/ StrContains(r.description, q))
        ELSE SelectSeq(food_data, LAMBDA r : ~IsNa(r, ColumnOf(q)))

filter_foods(food_data, query, mode) ==
    LET q == LowerStr(Strip(query))
    IN  IF mode = "namedesc"
        THEN IF ~RegexCompiles(q) THEN Raise("re.error")
             ELSE IF StrAccessorFails(food_data, "description")
                  THEN Raise("AttributeError")
                  ELSE Format(Selected(food_data, query, mode))
        ELSE IF ~IsColumn(q) THEN Raise("KeyError")
             ELSE Format(Selected(food_data, query, mode))

-----------------------------------------------------------------------------
(* Inputs: the contents of the source files, and the queries *)

MaxQueryLen == 2
MaxCopies == 6
MaxFoodRows == 2
MaxNutritionRows == 2
MaxAssocRows == 2

SeqsUpTo(S, n) == UNION {[1..k -> S] : k \in 0..n}

\* " ", "A", "b", ".", "("
QueryAlphabet == {32, 65, 98, 46, 40}

\* " Vitamin_C"
Q_Vitamin_C == <<32, 86, 105, 116, 97, 109, 105, 110, 95, 67>>

Queries ==
    SeqsUpTo(QueryAlphabet, MaxQueryLen)
        \cup {S_vitamin_d, Q_Vitamin_C, S_calcium, S_food_name, S_price,
              S_menu_count}

Modes == {"namedesc", "nutrient"}

\* food_name and description of a food row: "Ab" -, "a" "b.", "B" -, "ab" "B."
RowKinds ==
    { [food_name |-> <<65, 98>>, description |-> <<>>],
      [food_name |-> <<97>>, description |-> <<98, 46>>],
      [food_name |-> <<66>>, description |-> <<>>],
      [food_name |-> <<97, 98>>, description |-> <<66, 46>>] }

FoodRow(id, kind) ==
    [food_name |-> kind.food_name, food_id |-> id,
     description |-> kind.description, price |-> 10 * id,
     image_ref |-> <<>>, import_name |-> <<>>]

\* A food file of 2 * copies rows, food_id 1, 2, ..., alternating two kinds
FoodTable(first, second, copies) ==
    [i \in 1..(2 * copies) |->
        FoodRow(i, IF i % 2 = 1 THEN first ELSE second)]

NutritionRow(nid, fid, d, c, ca) ==
    [nutrition_id |-> nid, food_id |-> fid, vitamin_d |-> d,
     vitamin_c |-> c, calcium |-> ca]

\* nutrition files: empty; one row; two rows of food 1, one of food 2 and
\* one of a food_id (99) that the food file does not hold
NutritionSamples ==
    { <<>>,
      << NutritionRow(1, 1, 5, NaN, NaN) >>,
      << NutritionRow(1, 1, 5, NaN, 2), NutritionRow(2, 99, NaN, 7, NaN),
         NutritionRow(3, 2, NaN, 7, NaN), NutritionRow(4, 1, NaN, NaN, 3) >> }

AssocRow(id, fid, mid) == [food_menu_id |-> id, food_id |-> fid, menu_id |-> mid]

AssocSamples ==
    { <<>>, << AssocRow(1, 1, 1), AssocRow(2, 1, 2), AssocRow(3, 2, 1) >> }

MenuTable == << [menu_id |-> 1, menu_name |-> <<97>>],
                [menu_id |-> 2, menu_name |-> <<98>>] >>

Raw(food, nutrition, assoc) ==
    [food_data |-> food, menu_data |-> MenuTable,
     nutrition_data |-> nutrition, food_menu_data |-> assoc]

QueryInputs ==
    { Raw(FoodTable(a, b, c), n, m) :
        a \in RowKinds, b \in RowKinds, c \in 1..MaxCopies,
        n \in NutritionSamples, m \in AssocSamples }

\* Join inputs: small files in which a food_id may repeat within a file and
\* may occur in any subset of the three files
JoinFoodRows == {FoodRow(id, k) : id \in 1..2, k \in {[food_name |-> <<97>>, description |-> <<>>]}}

JoinNutritionRows ==
    {NutritionRow(1, id, d, NaN, NaN) : id \in 1..3, d \in {NaN, 5}}

JoinAssocRows == {AssocRow(1, id, 1) : id \in 1..3}

JoinInputs ==
    { Raw(f, n, m) :
        f \in SeqsUpTo(JoinFoodRows, MaxFoodRows),
        n \in SeqsUpTo(JoinNutritionRows, MaxNutritionRows),
        m \in SeqsUpTo(JoinAssocRows, MaxAssocRows) }

-----------------------------------------------------------------------------
(* The denormalizer and the query engine as steps over given files *)

ServerIdle ==
    /\ pc = "boot" /\ dataDir = TRUE /\ files = <<>>
    /\ live = {} /\ g = <<>>
    /\ ret = NoCall /\ resp = NoCall /\ firstLoaded = NoData

InitQuery ==
    /\ csv \in QueryInputs
    /\ data = NoData
    /\ out = NoCall
    /\ ServerIdle

InitJoin ==
    /\ csv \in JoinInputs
    /\ data = NoData
    /\ out = NoCall
    /\ ServerIdle

\* data = process_data(data) (line 37)
ProcessData ==
    /\ data = NoData
    /\ data' = process_data(csv)
    /\ UNCHANGED <<csv, out>>
    /\ UNCHANGED serverVars

\* one call filter_foods(query, mode) on the loaded table
FilterFoods(query, mode) ==
    /\ data # NoData
    /\ out = NoCall
    /\ out' = [query |-> query, mode |-> mode]
                  @@ filter_foods(data.food_data, query, mode)
    /\ UNCHANGED <<csv, data>>
    /\ UNCHANGED serverVars

NextQuery ==
    \/ ProcessData
    \/ \E query \in Queries, mode \in Modes : FilterFoods(query, mode)

NextJoin == ProcessData

SpecQuery == InitQuery /\ [][NextQuery]_vars

SpecJoin == InitJoin /\ [][NextJoin]_vars

-----------------------------------------------------------------------------
(* Claims about the query engine *)

Returned == out.kind = "return"

\* the rows the last call selected, and how many
Matches == Selected(data.food_data, out.query, out.mode)

\* cell holds q as a literal substring, letter case ignored
LiteralContains(cell, q) ==
    /\ cell # <<>>
    /\ \E i \in 0..(Len(cell) - Len(q)) :
          \A j \in 1..Len(q) : Lower(q[j]) = Lower(cell[i + j])

LiteralMatches(query) ==
    SelectSeq(data.food_data,
              LAMBDA r : \/ LiteralContains(r.food_name, LowerStr(Strip(query)))
                         \/ LiteralContains(r.description, LowerStr(Strip(query))))

\* C1: in text-match mode every query returns, and what it returns is made of
\* exactly the records whose food_name or description holds the trimmed,
\* lower-cased query as a literal substring, letter case ignored.
C1_LiteralSubstring ==
    (out.kind # "none" /\ out.mode = "namedesc") =>
        /\ Returned
        /\ out.results = ValuesToList(Cap(SortValues(LiteralMatches(out.query))))
        /\ Len(Matches) = Len(LiteralMatches(out.query))

\* C2: every row of results is [food_id, food_name, price, menu_count] of one
\* matching record.
C2_FourColumns ==
    Returned =>
        \A i \in 1..Len(out.results) :
            /\ Len(out.results[i]) = 4
            /\ \E k \in 1..Len(Matches) :
                  out.results[i] = <<Matches[k].food_id, Matches[k].food_name,
                                     Matches[k].price, Matches[k].menu_count>>

\* ascending code-point order of food_name, an absent name behind every name
NameBefore(a, b) == a # <<>> /\ (b = <<>> \/ StrLess(a, b))

Count(seq, x) == Cardinality({i \in 1..Len(seq) : seq[i] = x})

Min(a, b) == IF a < b THEN a ELSE b

\* C3: results holds min(n, 5) rows, in ascending case-sensitive code-point
\* order of food_name, and they are rows of the n matches none of which
\* comes behind a match that was left out.
C3_FirstFiveSorted ==
    Returned =>
        LET rows == out.results
            all == ValuesToList(Matches)
        IN  /\ Len(rows) = Min(Len(Matches), 5)
            /\ \A i, j \in 1..Len(rows) :
                  i < j => ~NameBefore(rows[j][1], rows[i][1])
            /\ \A i \in 1..Len(rows) : Count(rows, rows[i]) <= Count(all, rows[i])
            /\ \A k \in 1..Len(all) :
                  Count(rows, all[k]) < Count(all, all[k]) =>
                      \A i \in 1..Len(rows) : ~NameBefore(all[k][1], rows[i][1])

\* more than 5 matches, and a capital "B" sorted in front of a small "a"
C3_Witness ==
    /\ Returned
    /\ Len(Matches) > 5
    /\ Len(out.results) = 5
    /\ \E i, j \in 1..5 :
          /\ i < j
          /\ out.results[i][1] # <<>> /\ out.results[i][1][1] = 66
          /\ out.results[j][1] # <<>> /\ out.results[j][1][1] = 97

\* C4 as claimed: pages_left = floor((n - 1) / 10) for every n >= 0, so -1 for
\* n = 0, where results is empty.
C4_FloorFormula ==
    Returned =>
        /\ out.pages_left = (Len(Matches) - 1) \div 10
        /\ (Len(Matches) = 0 => out.results = <<>>)

\* C4, amended: pages_left = floor((n - 1) / 10) for n >= 1, and for n = 0
\* the call returns results = [] and pages_left = 0.
C4_TruncatedFormula ==
    Returned =>
        /\ Len(Matches) >= 1 => out.pages_left = (Len(Matches) - 1) \div 10
        /\ Len(Matches) = 0 => (out.results = <<>> /\ out.pages_left = 0)

C4_Witness == Returned /\ Len(Matches) = 0 /\ out.pages_left = 0

C4_WitnessSecondPage == Returned /\ Len(Matches) >= 11 /\ out.pages_left = 1

NutrientColumns == {S_vitamin_d, S_vitamin_c, S_calcium}

\* C5: in nutrient mode a query that is, trimmed and lower-cased, none of
\* vitamin_d, vitamin_c, calcium fails with UnknownField.
C5_UnknownField ==
    (/\ out.kind # "none"
     /\ out.mode = "nutrient"
     /\ LowerStr(Strip(out.query)) \notin NutrientColumns) =>
        (out.kind = "raise" /\ out.error = "UnknownField")

-----------------------------------------------------------------------------
(* Claims about the denormalizer *)

Processed == data # NoData

SourceIds == KeysOf(csv.food_data) \cup KeysOf(csv.nutrition_data)

Max(a, b) == IF a < b THEN b ELSE a

C7_MenuCountDefault ==
    Processed =>
        \A i \in 1..Len(data.food_data) :
            data.food_data[i].menu_count =
                Len(RowsOf(csv.food_menu_data, data.food_data[i].food_id))

-----------------------------------------------------------------------------
(* load_data, get_data and the start-up block *)

MaxContexts == 2

\* data_paths, in the order load_data reads them
DataPaths ==
    << [key |-> "food_data", path |-> "./data/food_data.csv"],
       [key |-> "menu_data", path |-> "./data/menu_data.csv"],
       [key |-> "nutrition_data", path |-> "./data/nutrition_data.csv"],
       [key |-> "food_menu_data", path |-> "./data/food_menu_data.csv"] >>

FileKeys == {DataPaths[i].key : i \in 1..Len(DataPaths)}

\* read_csv succeeds, raises FileNotFoundError, raises PermissionError
FileStates == {"ok", "missing", "noperm"}

\* the file the loop reports last, if it went on after a failure
LastFailing(failing) == CHOOSE i \in failing : \A j \in failing : j <= i

\* the first file of the loop whose read_csv raises
FirstFailing(failing) == CHOOSE i \in failing : \A j \in failing : i <= j

FileNotFound(path) == [kind |-> "raise", error |-> path, value |-> NoData]

load_data(dirExists, fileStates, contents) ==
    IF ~dirExists THEN FileNotFound("./data/")
    ELSE LET failing == {i \in 1..Len(DataPaths) :
                            fileStates[DataPaths[i].key] # "ok"}
         IN  IF failing # {}
             THEN FileNotFound(DataPaths[FirstFailing(failing)].path)
             ELSE [kind |-> "return", error |-> "",
                   value |-> process_data(contents)]

\* Application contexts: 0 is the one of the start-up block; of the others,
\* at most MaxContexts are pushed at a time while the server runs
Ctxs == 0..MaxContexts

\* a cache test that always misses
InGNever(c) == FALSE

\* 'data' in g, in context c
InG(c) == g[c] # NoData

\* get_data() called in context c
GetData(c) ==
    IF InG(c)
    THEN /\ ret' = [kind |-> "return", ctx |-> c,
                    loaded |-> FALSE, error |-> "", value |-> g[c]]
         /\ UNCHANGED <<g, firstLoaded>>
    ELSE LET r == load_data(dataDir, files, csv)
         IN  /\ g' = IF r.kind = "return" THEN [g EXCEPT ![c] = r.value] ELSE g
             /\ ret' = [kind |-> r.kind, ctx |-> c,
                        loaded |-> TRUE, error |-> r.error, value |-> r.value]
             /\ firstLoaded' = IF firstLoaded = NoData /\ r.kind = "return"
                               THEN r.value
                               ELSE firstLoaded

\* Two states of the source files that answer the served queries differently
DiskImage(d) ==
    IF d = 1
    THEN Raw(FoodTable([food_name |-> <<97>>, description |-> <<98, 46>>],
                       [food_name |-> <<66>>, description |-> <<>>], 1),
             << NutritionRow(1, 1, 5, NaN, NaN) >>,
             << AssocRow(1, 1, 1) >>)
    ELSE Raw(FoodTable([food_name |-> <<97, 98>>, description |-> <<66, 46>>],
                       [food_name |-> <<65, 98>>, description |-> <<>>], 1),
             << NutritionRow(1, 2, 5, NaN, NaN) >>,
             <<>>)

DiskImages == {DiskImage(1), DiskImage(2)}

\* /search/A and /search_nutrients/vitamin_d
Requests ==
    { [query |-> <<65>>, mode |-> "namedesc"],
      [query |-> S_vitamin_d, mode |-> "nutrient"] }

AllFiles(st) == [k \in FileKeys |-> st]

\* The process before the start-up block runs
Boot ==
    /\ data = NoData
    /\ out = NoCall
    /\ pc = "boot"
    /\ live = {}
    /\ g = [c \in Ctxs |-> NoData]
    /\ ret = NoCall
    /\ resp = NoCall
    /\ firstLoaded = NoData

\* ./data is there with its four files readable, or is not there
Init ==
    /\ csv \in DiskImages
    /\ dataDir \in BOOLEAN
    /\ files = IF dataDir THEN AllFiles("ok") ELSE AllFiles("missing")
    /\ Boot

\* ./data is there with each file readable, missing or unreadable, or is
\* not there
InitLoad ==
    /\ csv = DiskImage(1)
    /\ dataDir \in BOOLEAN
    /\ files \in [FileKeys -> FileStates]
    /\ ~dataDir => files = AllFiles("missing")
    /\ Boot

\* lines 150-155: get_data() inside `with app.app_context()`; a
\* FileNotFoundError is logged and raised again, which ends the process
Preload ==
    /\ pc = "boot"
    /\ GetData(0)
    /\ pc' = IF ret'.kind = "raise" THEN "crashed" ELSE "preload"
    /\ live' = IF ret'.kind = "raise" THEN {} ELSE {0}
    /\ UNCHANGED <<csv, data, out, dataDir, files, resp>>

\* the with block ends, which pops its context, and app.run() (line 156)
AppRun ==
    /\ pc = "preload"
    /\ pc' = "serving"
    /\ live' = live \ {0}
    /\ g' = [g EXCEPT ![0] = NoData]
    /\ UNCHANGED <<csv, data, out, dataDir, files, ret, resp, firstLoaded>>

\* Flask pushes a fresh application context, whose g is empty
PushContext(c) ==
    /\ pc = "serving"
    /\ c \in 1..MaxContexts
    /\ c \notin live
    /\ live' = live \cup {c}
    /\ UNCHANGED <<csv, data, out, pc, dataDir, files, g, ret,
                   resp, firstLoaded>>

\* search(query) or search_nutrition(nutrient) in context c (lines 125-146):
\* filter_foods calls get_data; whatever is raised becomes the response
View(c, rq) ==
    /\ pc = "serving"
    /\ c \in live
    /\ GetData(c)
    /\ resp' = [query |-> rq.query, mode |-> rq.mode]
                  @@ (IF ret'.kind = "raise"
                      THEN Raise("FileNotFoundError")
                      ELSE filter_foods(ret'.value.food_data, rq.query, rq.mode))
    /\ UNCHANGED <<csv, data, out, pc, dataDir, files, live>>

\* the context ends and its g with it
PopContext(c) ==
    /\ pc = "serving"
    /\ c \in live
    /\ live' = live \ {c}
    /\ g' = [g EXCEPT ![c] = NoData]
    /\ UNCHANGED <<csv, data, out, pc, dataDir, files, ret, resp, firstLoaded>>

\* The environment: ./data and the files in it change while the process
\* runs (what they were before it started is the initial state)
Running == pc \in {"preload", "serving"}

RemoveDataDir ==
    /\ Running
    /\ dataDir
    /\ dataDir' = FALSE
    /\ files' = AllFiles("missing")
    /\ UNCHANGED <<csv, data, out, pc, live, g, ret, resp, firstLoaded>>

CreateDataDir ==
    /\ Running
    /\ ~dataDir
    /\ dataDir' = TRUE
    /\ UNCHANGED <<csv, data, out, pc, files, live, g, ret, resp, firstLoaded>>

SetFile(k, st) ==
    /\ Running
    /\ dataDir
    /\ files[k] # st
    /\ files' = [files EXCEPT ![k] = st]
    /\ UNCHANGED <<csv, data, out, pc, dataDir, live, g, ret, resp, firstLoaded>>

\* ./data is put back with its four files
RestoreData ==
    /\ Running
    /\ ~dataDir
    /\ dataDir' = TRUE
    /\ files' = AllFiles("ok")
    /\ UNCHANGED <<csv, data, out, pc, live, g, ret, resp, firstLoaded>>

\* the files are rewritten with other contents
WriteFiles(contents) ==
    /\ Running
    /\ dataDir
    /\ csv # contents
    /\ csv' = contents
    /\ UNCHANGED <<data, out, pc, dataDir, files, live, g, ret,
                   resp, firstLoaded>>

\* The server with contexts pushed side by side, over a data directory that
\* is rewritten, removed and put back as a whole
Next ==
    \/ Preload
    \/ AppRun
    \/ \E c \in Ctxs : PushContext(c)
    \/ \E c \in Ctxs, rq \in Requests : View(c, rq)
    \/ \E c \in Ctxs : PopContext(c)
    \/ RemoveDataDir
    \/ RestoreData
    \/ \E contents \in DiskImages : WriteFiles(contents)

Spec == Init /\ [][Next]_vars

\* The server with one context pushed at a time, over files that come and
\* go one by one
NextLoad ==
    \/ Preload
    \/ AppRun
    \/ \E c \in Ctxs : live = {} /\ PushContext(c)
    \/ \E c \in Ctxs, rq \in Requests : View(c, rq)
    \/ \E c \in Ctxs : PopContext(c)
    \/ RemoveDataDir
    \/ CreateDataDir
    \/ \E k \in FileKeys, st \in FileStates : SetFile(k, st)

SpecLoad == InitLoad /\ [][NextLoad]_vars

-----------------------------------------------------------------------------
(* Claims about the cache, the loader and the start-up block *)

\* C8: in a context whose g holds a table, a get_data call returns that table
\* and runs no loader; in a context whose g holds none, the call runs the
\* loader and stores what it returns in that context; a table gets into the
\* g of a context only as what a load made in that context returned.
C8_LoadOncePerContext ==
    [][\A c \in Ctxs :
          /\ (g[c] # NoData /\ ret' # ret /\ ret'.ctx = c) =>
                /\ ~ret'.loaded
                /\ ret'.kind = "return"
                /\ ret'.value = g[c]
                /\ g' = g
          /\ (g[c] = NoData /\ ret' # ret /\ ret'.ctx = c) =>
                /\ ret'.loaded
                /\ ret'.kind = "return" => g'[c] = ret'.value
          /\ (g'[c] # g[c] /\ g'[c] # NoData) =>
                (ret'.ctx = c /\ ret'.loaded /\ ret'.value = g'[c])
      ]_vars

\* a call answered from g although the files now hold something else, while
\* another context holds the table of the new files
C8_Witness ==
    /\ ret.kind = "return"
    /\ ~ret.loaded
    /\ ret.ctx \in live
    /\ dataDir
    /\ ret.value # process_data(csv)
    /\ \E c \in live : c # ret.ctx /\ g[c] = process_data(csv)

\* the path the missing-data-source error has to name, "" when there is none
Offending(dirExists, f) ==
    IF ~dirExists THEN "./data/"
    ELSE IF f["food_data"] # "ok" THEN "./data/food_data.csv"
    ELSE IF f["menu_data"] # "ok" THEN "./data/menu_data.csv"
    ELSE IF f["nutrition_data"] # "ok" THEN "./data/nutrition_data.csv"
    ELSE IF f["food_menu_data"] # "ok" THEN "./data/food_menu_data.csv"
    ELSE ""

\* C9: a load made while ./data is absent or a source file is missing or
\* unreadable raises the error that names ./data/ or the first such file in
\* the order food, menu, nutrition, food_menu; get_data raises that same
\* error, returns no table and leaves g without one; at start-up the process
\* then ends, and a process that ended never serves.
C9_MissingSource ==
    /\ [][(ret' # ret /\ ret'.loaded) =>
            IF Offending(dataDir, files) # ""
            THEN /\ ret'.kind = "raise"
                 /\ ret'.error = Offending(dataDir, files)
                 /\ ret'.value = NoData
                 /\ g' = g
                 /\ g'[ret'.ctx] = NoData
                 /\ resp'.kind # "return"
                 /\ pc = "boot" => pc' = "crashed"
            ELSE /\ ret'.kind = "return"
                 /\ pc = "boot" => pc' = "preload"
         ]_vars
    /\ [][pc = "crashed" => UNCHANGED <<pc, live, g, resp>>]_vars
    /\ [](pc = "crashed" => (resp = NoCall /\ live = {}))

\* the start-up load failed on the nutrition file, unreadable, with the
\* food_menu file missing too
C9_Witness ==
    /\ pc = "crashed"
    /\ ret.kind = "raise"
    /\ ret.error = "./data/nutrition_data.csv"
    /\ files["nutrition_data"] = "noperm"
    /\ files["food_menu_data"] = "missing"

\* a request failed on a missing source, and its context holds no table
C9_WitnessRequest ==
    /\ pc = "serving"
    /\ ret.kind = "raise"
    /\ ret.ctx \in live
    /\ g[ret.ctx] = NoData
    /\ resp.kind = "raise"

\* C10: once the process has loaded the table, every request it serves is
\* answered from that table, whatever the source files hold by then.
C10_OneSnapshotPerProcess ==
    (firstLoaded # NoData /\ resp.kind = "return") =>
        LET first == filter_foods(firstLoaded.food_data, resp.query, resp.mode)
        IN  /\ resp.results = first.results
            /\ resp.pages_left = first.pages_left

====
